---- MODULE Spec2Model ----
(***************************************************************************)
(* go-trycatch: the TryCatchBlock of package gotrycatch.                   *)
(*                                                                         *)
(* One block (three slots: try, catch, finally) is configured by a         *)
(* single-threaded client with Try / Catch / Finally / Reset and executed  *)
(* with Do.  The repository holds three texts of Do:                       *)
(*   "err"   src/trycatch.go 59-100   returns the error, three defers,     *)
(*                                    resets itself (defer tc.reset())     *)
(*   "old"   src/trycatch.go 143-176  returns the error, two defers,       *)
(*                                    no guard on tc.try, no reset         *)
(*   "reset" src/unnamed/part_000 52-93  returns nothing, one combined     *)
(*                                    defer ending in tc.Reset()           *)
(* A behaviour fixes one of them (variant) and runs Do in the steps of the *)
(* Go code: the guard and the defer statements, the body call, the handler *)
(* call of the main flow, each deferred function in LIFO order, and the    *)
(* return to the caller.                                                   *)
(***************************************************************************)
EXTENDS Integers, Sequences, FiniteSets, TLC

VARIABLES variant, try, catch, finally, pc, defers, err, panicking, log,
          result, called, calls, heap,
          fresh,
          blocks, pool, g, errorCount, completionCount, ran

\* fresh is history only: the slots a block made by New() would hold after
\* the Try / Catch / Finally calls made since the last Reset (Stale once a Do
\* has started).  blocks .. ran are the state of the goroutines of the
\* concurrency tests; the single-threaded client leaves them alone.
conc == <<blocks, pool, g, errorCount, completionCount, ran>>

vars == <<variant, try, catch, finally, pc, defers, err, panicking, log,
          result, called, calls, heap, fresh, conc>>

\* Number of Do calls one behaviour makes.
MaxCalls == 2

----------------------------------------------------------------------------
(* Values: Go strings are sequences of characters, errors are records with *)
(* an identity (addr), a dynamic type (dyn) and a text (Error()).          *)

Variants == {"err", "old", "reset"}

NilFunc  == [kind |-> "nilfunc"]
NilErr   == [kind |-> "nilerror"]
Void     == [kind |-> "void"]
NoPanic  == [kind |-> "none"]
NoResult == [kind |-> "none"]

\* errors.New("try function is nil")
ErrorTryFuncNil ==
  [kind |-> "error", dyn |-> "*errors.errorString", addr |-> 1,
   text |-> <<"t","r","y"," ","f","u","n","c","t","i","o","n"," ","i","s",
              " ","n","i","l">>]

\* the runtime error of calling a nil func value
NilDerefError ==
  [kind |-> "error", dyn |-> "runtime.errorString", addr |-> 2,
   text |-> <<"n","i","l"," ","d","e","r","e","f">>]

\* errors.New("try error") of the tests
TryError ==
  [kind |-> "error", dyn |-> "*errors.errorString", addr |-> 3,
   text |-> <<"t","r","y"," ","e","r","r","o","r">>]

\* customError{errorMessage: "custom error"} of the tests
CustomError ==
  [kind |-> "error", dyn |-> "customError", addr |-> 4,
   text |-> <<"c","u","s","t","o","m"," ","e","r","r","o","r">>]

\* the last address in use before Do allocates
HeapBase == CustomError.addr

Errors == {ErrorTryFuncNil, TryError, CustomError}

\* panic("panic error") of the tests, and panic(42), panic(-7).  panic(nil)
\* reaches recover() as a *runtime.PanicNilError (Go 1.21 and later), which
\* is an error value like the ones above.
StringPayload == [kind |-> "string", s |-> <<"p","a","n","i","c">>]
IntPayload    == [kind |-> "int", n |-> 42]
NegPayload    == [kind |-> "int", n |-> -7]

NonErrors == {StringPayload, IntPayload, NegPayload}
Payloads  == Errors \cup NonErrors

\* what a handler or a cleanup that panics panics with
HandlerPayload == [kind |-> "string", s |-> <<"h">>]
CleanupPayload == [kind |-> "string", s |-> <<"c">>]

\* A body (func() error) returns nil, returns an error, or panics.
Bodies ==
  [kind : {"func"}, out : {"return"}, val : {NilErr} \cup Errors]
    \cup [kind : {"func"}, out : {"panic"}, val : Payloads]

\* A handler (func(error)) returns, panics on its first call only, or
\* panics on every call, with a string or with an error value.
Handlers ==
  [kind : {"func"}, mode : {"ok"}, val : {HandlerPayload}]
    \cup [kind : {"func"}, mode : {"panicFirst", "panicAlways"},
          val : {HandlerPayload, ErrorTryFuncNil}]

\* A cleanup (func()) returns or panics.
Cleanups == [kind : {"func"}, mode : {"ok", "panic"}]

Panic(origin, v) == [kind |-> "panic", origin |-> origin, val |-> v]

----------------------------------------------------------------------------
(* fmt.Errorf("%v", v)                                                     *)

Digit(d) ==
  CASE d = 0 -> "0" [] d = 1 -> "1" [] d = 2 -> "2" [] d = 3 -> "3"
    [] d = 4 -> "4" [] d = 5 -> "5" [] d = 6 -> "6" [] d = 7 -> "7"
    [] d = 8 -> "8" [] d = 9 -> "9"

RECURSIVE Digits(_)
Digits(n) == IF n < 10 THEN <<Digit(n)>>
             ELSE Append(Digits(n \div 10), Digit(n % 10))

Itoa(n) == IF n < 0 THEN <<"-">> \o Digits(-n) ELSE Digits(n)

\* the %v form of a value: a string as it is, an error by its Error(),
\* an integer in decimal
FormatV(v) ==
  IF v.kind = "string" THEN v.s
  ELSE IF v.kind = "error" THEN v.text
  ELSE Itoa(v.n)

\* mutant: fmt.Errorf("panic: %v", v)
ErrorfPrefixed(v, a) ==
  [kind |-> "error", dyn |-> "*errors.errorString", addr |-> a,
   text |-> <<"p","a","n","i","c",":"," ">> \o FormatV(v)]

\* fmt.Errorf("%v", v): a new error value at address a
Errorf(v, a) ==
  [kind |-> "error", dyn |-> "*errors.errorString", addr |-> a,
   text |-> FormatV(v)]

IsError(v) == v.kind = "error"

----------------------------------------------------------------------------
(* The frame of one Do call: the slots of the block, the named result err, *)
(* the panic in flight, the calls made so far, the allocation counter.     *)

CatchCalls(l) == Cardinality({i \in 1..Len(l) : l[i].ev = "catch"})
FinallyCalls(l) == Cardinality({i \in 1..Len(l) : l[i].ev = "finally"})
TryCalls(l) == Cardinality({i \in 1..Len(l) : l[i].ev = "try"})

\* tc.try()
CallTry(st) ==
  IF st.try = NilFunc
    THEN [st EXCEPT !.panicking = Panic("runtime", NilDerefError)]
    ELSE LET st1 == [st EXCEPT !.log = Append(@, [ev |-> "try"])]
         IN IF st.try.out = "panic"
              THEN [st1 EXCEPT !.panicking = Panic("body", st.try.val)]
              ELSE [st1 EXCEPT !.err = st.try.val]

\* tc.catch(e)
CallCatch(st, e) ==
  IF st.catch = NilFunc
    THEN [st EXCEPT !.panicking = Panic("runtime", NilDerefError)]
    ELSE LET st1 == [st EXCEPT !.log = Append(@, [ev |-> "catch", arg |-> e])]
             throws == \/ st.catch.mode = "panicAlways"
                       \/ st.catch.mode = "panicFirst" /\ CatchCalls(st.log) = 0
         IN IF throws
              THEN [st1 EXCEPT !.panicking = Panic("handler", st.catch.val)]
              ELSE st1

\* tc.finally()
CallFinally(st) ==
  IF st.finally = NilFunc
    THEN [st EXCEPT !.panicking = Panic("runtime", NilDerefError)]
    ELSE LET st1 == [st EXCEPT !.log = Append(@, [ev |-> "finally"])]
         IN IF st.finally.mode = "panic"
              THEN [st1 EXCEPT !.panicking = Panic("cleanup", CleanupPayload)]
              ELSE st1

\* mutant: every payload is formatted into a new error
NormalizeAlwaysWrap(st, r) ==
  [st EXCEPT !.err = Errorf(r, st.heap + 1), !.heap = st.heap + 1]

\* switch v := r.(type) { case error: err = v; default: err = fmt.Errorf("%v", v) }
Normalize(st, r) ==
  IF IsError(r)
    THEN [st EXCEPT !.err = r]
    ELSE [st EXCEPT !.err = Errorf(r, st.heap + 1), !.heap = st.heap + 1]

\* mutant: the handler is called without the nil check
CatchUnchecked(st) == CallCatch(st, st.err)

\* if tc.catch != nil { tc.catch(err) }
CatchIfSet(st) ==
  IF st.catch # NilFunc THEN CallCatch(st, st.err) ELSE st

\* if r := recover(); r != nil { ...; if tc.catch != nil { tc.catch(err) } }
RecoverBlock(st) ==
  IF st.panicking.kind = "panic"
    THEN CatchIfSet(Normalize([st EXCEPT !.panicking = NoPanic],
                              st.panicking.val))
    ELSE st

\* if tc.finally != nil { tc.finally() }
FinallyIfSet(st) ==
  IF st.finally # NilFunc THEN CallFinally(st) ELSE st

\* mutant: the reset leaves tc.catch as it is
ResetSlotsKeepsCatch(st) ==
  [st EXCEPT !.try = NilFunc, !.finally = NilFunc]

\* tc.reset() / tc.Reset()
ResetSlots(st) ==
  [st EXCEPT !.try = NilFunc, !.catch = NilFunc, !.finally = NilFunc]

\* mutant: the deferred function runs the cleanup before it recovers
CombinedDeferCleanupFirst(st) ==
  LET s1 == FinallyIfSet([st EXCEPT !.panicking = NoPanic])
      s2 == RecoverBlock([s1 EXCEPT !.panicking = st.panicking])
  IN IF s2.panicking.kind = "panic" THEN s2 ELSE ResetSlots(s2)

\* the one deferred function of the explicit-Reset Do: a panic raised by
\* the handler or by the cleanup ends it there
CombinedDefer(st) ==
  LET s1 == RecoverBlock(st)
      s2 == IF s1.panicking.kind = "panic" THEN s1 ELSE FinallyIfSet(s1)
  IN IF s2.panicking.kind = "panic" THEN s2 ELSE ResetSlots(s2)

\* one deferred function, by name
RunDeferred(d, st) ==
  CASE d = "recover"        -> RecoverBlock(st)
    [] d = "finally"        -> CallFinally(st)
    [] d = "finallyChecked" -> FinallyIfSet(st)
    [] d = "reset"          -> ResetSlots(st)
    [] d = "combined"       -> CombinedDefer(st)

\* mutant: the cleanup is deferred last, so it runs first
DeferListFinallyFirst(v, fin) ==
  CASE v = "err"   -> (IF fin # NilFunc THEN <<"finally">> ELSE <<>>)
                        \o <<"recover", "reset">>
    [] v = "old"   -> <<"finallyChecked", "recover">>
    [] v = "reset" -> <<"combined">>

\* mutant: the defer of the cleanup is missing
DeferListNoFinally(v, fin) ==
  CASE v = "err"   -> <<"recover", "reset">>
    [] v = "old"   -> <<"recover">>
    [] v = "reset" -> <<"combined">>

\* mutant: defer tc.reset() is missing
DeferListNoReset(v, fin) ==
  CASE v = "err"   -> <<"recover">>
                        \o (IF fin # NilFunc THEN <<"finally">> ELSE <<>>)
    [] v = "old"   -> <<"recover", "finallyChecked">>
    [] v = "reset" -> <<"combined">>

\* the deferred functions of a Do call, in the order they run
DeferList(v, fin) ==
  CASE v = "err"   -> <<"recover">>
                        \o (IF fin # NilFunc THEN <<"finally">> ELSE <<>>)
                        \o <<"reset">>
    [] v = "old"   -> <<"recover", "finallyChecked">>
    [] v = "reset" -> <<"combined">>

\* if tc.try == nil { return ... }: the variants that have the guard
HasGuard(v) == v \in {"err", "reset"}

\* mutant: the guard returns nil
GuardResultNoError(v) ==
  IF v = "err" THEN [kind |-> "returned", err |-> NilErr]
               ELSE [kind |-> "returned", err |-> Void]

\* what the guard hands the caller
GuardResult(v) ==
  IF v = "err" THEN [kind |-> "returned", err |-> ErrorTryFuncNil]
               ELSE [kind |-> "returned", err |-> Void]

\* what a Do that ran to its end hands the caller
FinalResult(v, p, e) ==
  IF p.kind = "panic" THEN [kind |-> "panicked", origin |-> p.origin, val |-> p.val]
  ELSE IF v = "reset" THEN [kind |-> "returned", err |-> Void]
  ELSE [kind |-> "returned", err |-> e]

Frame ==
  [try |-> try, catch |-> catch, finally |-> finally, err |-> err,
   panicking |-> panicking, log |-> log, heap |-> heap]

\* the frame written back
Store(st) ==
  /\ try' = st.try
  /\ catch' = st.catch
  /\ finally' = st.finally
  /\ err' = st.err
  /\ panicking' = st.panicking
  /\ log' = st.log
  /\ heap' = st.heap

----------------------------------------------------------------------------
(* New(): an empty block.                                                  *)

EmptySlots == [try |-> NilFunc, catch |-> NilFunc, finally |-> NilFunc]
Stale      == [kind |-> "stale"]

\* no goroutine of the concurrency tests exists
NoGoroutines ==
  /\ blocks = <<>>
  /\ pool = {}
  /\ g = <<>>
  /\ errorCount = 0
  /\ completionCount = 0
  /\ ran = {}

\* one block made by New(), and no Do call yet
NewBlock ==
  /\ try = NilFunc
  /\ catch = NilFunc
  /\ finally = NilFunc
  /\ pc = "idle"
  /\ defers = <<>>
  /\ err = NilErr
  /\ panicking = NoPanic
  /\ log = <<>>
  /\ result = NoResult
  /\ called = [try |-> NilFunc, catch |-> NilFunc, finally |-> NilFunc,
               fresh |-> Stale]
  /\ calls = 0
  /\ heap = HeapBase
  /\ fresh = EmptySlots

Init ==
  /\ variant \in Variants
  /\ NewBlock
  /\ NoGoroutines

\* mutant: Try keeps a body that is already stored
TryKeepsFirst ==
  /\ pc = "idle"
  /\ \E f \in Bodies \cup {NilFunc} :
       /\ try' = IF try = NilFunc THEN f ELSE try
       /\ fresh' = IF fresh = Stale THEN Stale ELSE [fresh EXCEPT !.try = f]
  /\ UNCHANGED <<variant, catch, finally, pc, defers, err, panicking, log,
                 result, called, calls, heap, conc>>

Try ==
  /\ pc = "idle"
  /\ \E f \in Bodies \cup {NilFunc} :
       /\ try' = f
       /\ fresh' = IF fresh = Stale THEN Stale ELSE [fresh EXCEPT !.try = f]
  /\ UNCHANGED <<variant, catch, finally, pc, defers, err, panicking, log,
                 result, called, calls, heap, conc>>

Catch ==
  /\ pc = "idle"
  /\ \E h \in Handlers \cup {NilFunc} :
       /\ catch' = h
       /\ fresh' = IF fresh = Stale THEN Stale ELSE [fresh EXCEPT !.catch = h]
  /\ UNCHANGED <<variant, try, finally, pc, defers, err, panicking, log,
                 result, called, calls, heap, conc>>

Finally ==
  /\ pc = "idle"
  /\ \E c \in Cleanups \cup {NilFunc} :
       /\ finally' = c
       /\ fresh' = IF fresh = Stale THEN Stale ELSE [fresh EXCEPT !.finally = c]
  /\ UNCHANGED <<variant, try, catch, pc, defers, err, panicking, log,
                 result, called, calls, heap, conc>>

\* mutant: Reset forgets tc.try = nil
ResetKeepsTry ==
  /\ pc = "idle"
  /\ variant = "reset"
  /\ catch' = NilFunc
  /\ finally' = NilFunc
  /\ fresh' = EmptySlots
  /\ UNCHANGED <<variant, try, pc, defers, err, panicking, log, result,
                 called, calls, heap, conc>>

\* mutant: Reset forgets tc.catch = nil
ResetKeepsCatch ==
  /\ pc = "idle"
  /\ variant = "reset"
  /\ try' = NilFunc
  /\ finally' = NilFunc
  /\ fresh' = EmptySlots
  /\ UNCHANGED <<variant, catch, pc, defers, err, panicking, log, result,
                 called, calls, heap, conc>>

\* the exported Reset of the explicit-Reset text
Reset ==
  /\ pc = "idle"
  /\ variant = "reset"
  /\ try' = NilFunc
  /\ catch' = NilFunc
  /\ finally' = NilFunc
  /\ fresh' = EmptySlots
  /\ UNCHANGED <<variant, pc, defers, err, panicking, log, result, called,
                 calls, heap, conc>>

\* mutant: the reset is deferred before the guard
DoEnterResetsOnGuard ==
  /\ pc = "idle"
  /\ calls < MaxCalls
  /\ calls' = calls + 1
  /\ called' = [try |-> try, catch |-> catch, finally |-> finally,
                fresh |-> fresh]
  /\ fresh' = Stale
  /\ log' = <<>>
  /\ err' = NilErr
  /\ panicking' = NoPanic
  /\ IF HasGuard(variant) /\ try = NilFunc
       THEN /\ result' = GuardResult(variant)
            /\ pc' = "idle"
            /\ defers' = <<>>
            /\ catch' = NilFunc
            /\ finally' = NilFunc
       ELSE /\ result' = NoResult
            /\ pc' = "body"
            /\ defers' = DeferList(variant, finally)
            /\ UNCHANGED <<catch, finally>>
  /\ UNCHANGED <<variant, try, heap, conc>>

\* Do, up to the call of the body: the guard and the defer statements
DoEnter ==
  /\ pc = "idle"
  /\ calls < MaxCalls
  /\ calls' = calls + 1
  /\ called' = [try |-> try, catch |-> catch, finally |-> finally,
                fresh |-> fresh]
  /\ fresh' = Stale
  /\ log' = <<>>
  /\ err' = NilErr
  /\ panicking' = NoPanic
  /\ IF HasGuard(variant) /\ try = NilFunc
       THEN /\ result' = GuardResult(variant)
            /\ pc' = "idle"
            /\ defers' = <<>>
       ELSE /\ result' = NoResult
            /\ pc' = "body"
            /\ defers' = DeferList(variant, finally)
  /\ UNCHANGED <<variant, try, catch, finally, heap, conc>>

\* mutant: the handler is called whenever it is set, also for a nil error
DoBodyNoErrCheck ==
  /\ pc = "body"
  /\ LET st == CallTry(Frame)
     IN /\ Store(st)
        /\ pc' = IF st.panicking.kind = "none" /\ st.catch # NilFunc
                   THEN "catch" ELSE "defer"
  /\ UNCHANGED <<variant, defers, result, called, calls, fresh, conc>>

\* err = tc.try()
DoBody ==
  /\ pc = "body"
  /\ LET st == CallTry(Frame)
     IN /\ Store(st)
        /\ pc' = IF /\ st.panicking.kind = "none"
                    /\ st.err # NilErr
                    /\ st.catch # NilFunc
                   THEN "catch" ELSE "defer"
  /\ UNCHANGED <<variant, defers, result, called, calls, fresh, conc>>

\* if err != nil && tc.catch != nil { tc.catch(err) }
DoCatch ==
  /\ pc = "catch"
  /\ Store(CallCatch(Frame, err))
  /\ pc' = "defer"
  /\ UNCHANGED <<variant, defers, result, called, calls, fresh, conc>>

\* the next deferred function
DoDefer ==
  /\ pc = "defer"
  /\ defers # <<>>
  /\ Store(RunDeferred(Head(defers), Frame))
  /\ defers' = Tail(defers)
  /\ UNCHANGED <<variant, pc, result, called, calls, fresh, conc>>

\* mutant: Do does not end while a panic is in flight
DoReturnUnlessPanicking ==
  /\ pc = "defer"
  /\ defers = <<>>
  /\ panicking.kind = "none"
  /\ result' = FinalResult(variant, panicking, err)
  /\ pc' = "idle"
  /\ UNCHANGED <<variant, try, catch, finally, defers, err, panicking, log,
                 called, calls, heap, fresh, conc>>

\* control leaves Do: return err, or the panic in flight goes on
DoReturn ==
  /\ pc = "defer"
  /\ defers = <<>>
  /\ result' = FinalResult(variant, panicking, err)
  /\ pc' = "idle"
  /\ panicking' = NoPanic
  /\ UNCHANGED <<variant, try, catch, finally, defers, err, log, called,
                 calls, heap, fresh, conc>>

Next ==
  \/ Try
  \/ Catch
  \/ Finally
  \/ Reset
  \/ DoEnter
  \/ DoBody
  \/ DoCatch
  \/ DoDefer
  \/ DoReturn

Spec == Init /\ [][Next]_vars

----------------------------------------------------------------------------
(* Reading a finished Do call: called holds the slots as Do found them,    *)
(* log the calls Do made, result what its caller got.                      *)

Finished == pc = "idle" /\ result # NoResult

CatchAt(l)   == {i \in 1..Len(l) : l[i].ev = "catch"}
FinallyAt(l) == {i \in 1..Len(l) : l[i].ev = "finally"}
TryAt(l)     == {i \in 1..Len(l) : l[i].ev = "try"}

BodySet      == called.try # NilFunc
BodyReturns  == BodySet /\ called.try.out = "return"
BodyPanics   == BodySet /\ called.try.out = "panic"
BodyFails    == BodyPanics \/ (BodyReturns /\ called.try.val # NilErr)
HandlerSet   == called.catch # NilFunc
CleanupSet   == called.finally # NilFunc

CleanupOnceAfterHandler ==
  CleanupSet => /\ FinallyCalls(log) = 1
                /\ \A i \in CatchAt(log), j \in FinallyAt(log) : i < j

\* C1 (as claimed): a body that returns a non-nil error with a handler
\* configured gets the handler invoked exactly once, with exactly the
\* returned error value, and then the cleanup (if configured) exactly once.
C1_HandlerOnceWithReturnedError ==
  (Finished /\ BodyReturns /\ called.try.val # NilErr /\ HandlerSet)
    => /\ CatchCalls(log) = 1
       /\ \A i \in CatchAt(log) : log[i].arg = called.try.val
       /\ CleanupOnceAfterHandler

\* C2 (as claimed): a body that panics with a handler configured: the
\* body's panic does not reach the caller of Do, the handler is invoked
\* exactly once with the normalized error, and then the cleanup (if
\* configured) exactly once.
C2_PanicHandledThenCleanup ==
  (Finished /\ BodyPanics /\ HandlerSet)
    => /\ ~(result.kind = "panicked" /\ result.origin = "body")
       /\ CatchCalls(log) = 1
       /\ \A i \in CatchAt(log) :
            /\ IsError(log[i].arg)
            /\ log[i].arg.text = FormatV(called.try.val)
            /\ IsError(called.try.val) => log[i].arg = called.try.val
       /\ CleanupOnceAfterHandler

\* C3: a body that returns nil never gets the handler invoked and gets the
\* cleanup, if configured, invoked exactly once (and no cleanup call is made
\* when none is configured).
C3_SuccessSkipsHandlerRunsCleanupOnce ==
  (Finished /\ BodyReturns /\ called.try.val = NilErr)
    => /\ CatchCalls(log) = 0
       /\ TryCalls(log) = 1
       /\ FinallyCalls(log) = IF CleanupSet THEN 1 ELSE 0

C3_Witness ==
  /\ Finished /\ BodyReturns /\ called.try.val = NilErr
  /\ HandlerSet /\ CleanupSet
  /\ log = <<[ev |-> "try"], [ev |-> "finally"]>>

\* C4 (as claimed): with a body and a cleanup configured, the cleanup has
\* been invoked when control leaves Do, whatever the body and the handler do.
C4_CleanupBeforeLeaving ==
  (Finished /\ BodySet /\ CleanupSet) => FinallyCalls(log) >= 1

\* C5: within one Do call every handler call comes before every cleanup
\* call, on the returned-error path and on the panic path, and the body call
\* comes before both.
C5_BodyThenHandlerThenCleanup ==
  /\ \A i \in CatchAt(log), j \in FinallyAt(log) : i < j
  /\ \A i \in TryAt(log), j \in CatchAt(log) \cup FinallyAt(log) : i < j
  /\ (BodySet /\ log # <<>>) => log[1].ev = "try"

C5_Witness ==
  /\ BodyPanics
  /\ log = <<[ev |-> "try"], [ev |-> "catch", arg |-> called.try.val],
             [ev |-> "finally"]>>

\* C6: when the body panics with a payload that is an error value, every
\* handler call receives that very value (same identity, same dynamic type,
\* same text), and a configured handler is called.
C6_ErrorPayloadUnchanged ==
  (BodyPanics /\ IsError(called.try.val))
    => /\ \A i \in CatchAt(log) : log[i].arg = called.try.val
       /\ (Finished /\ HandlerSet) => CatchCalls(log) = 1

C6_Witness ==
  /\ Finished /\ BodyPanics /\ called.try.val = CustomError
  /\ \E i \in CatchAt(log) : log[i].arg = CustomError

\* the string form of the payloads that are not errors, written out
ExpectedText(p) ==
  CASE p = StringPayload -> <<"p","a","n","i","c">>
    [] p = IntPayload    -> <<"4","2">>
    [] p = NegPayload    -> <<"-","7">>

\* C7: when the body panics with a payload that is not an error value, the
\* handler receives a newly built error (an address no earlier value has)
\* whose text is the string form of the payload.
C7_NonErrorPayloadStringified ==
  (BodyPanics /\ ~IsError(called.try.val))
    => /\ \A i \in CatchAt(log) :
            /\ IsError(log[i].arg)
            /\ log[i].arg.text = ExpectedText(called.try.val)
            /\ log[i].arg.addr = heap
            /\ \A e \in Errors \cup {NilDerefError} : log[i].arg.addr # e.addr
       /\ (Finished /\ HandlerSet) => CatchCalls(log) = 1

C7_Witness ==
  /\ Finished /\ BodyPanics /\ called.try.val = NegPayload
  /\ \E i \in CatchAt(log) : log[i].arg.text = <<"-","7">>

\* C8: with no handler configured and a body that fails, Do calls no
\* handler, raises no panic of its own, does not let the body's panic out
\* (it returns unless the cleanup panics), and invokes the cleanup, if
\* configured, exactly once.
C8_NoHandlerFailureSwallowed ==
  (Finished /\ BodyFails /\ ~HandlerSet)
    => /\ CatchCalls(log) = 0
       /\ ~(result.kind = "panicked" /\ result.origin \in {"body", "runtime"})
       /\ (~CleanupSet \/ called.finally.mode = "ok") => result.kind = "returned"
       /\ FinallyCalls(log) = IF CleanupSet THEN 1 ELSE 0

C8_Witness ==
  /\ Finished /\ BodyPanics /\ ~HandlerSet /\ CleanupSet
  /\ result.kind = "returned"
  /\ log = <<[ev |-> "try"], [ev |-> "finally"]>>

\* C9 (as claimed): Do with no body configured invokes neither the handler
\* nor the cleanup and hands its caller ErrorTryFuncNil, in every text of Do.
C9_NoBodyRunsNothingReportsNil ==
  (Finished /\ ~BodySet)
    => /\ log = <<>>
       /\ result = [kind |-> "returned", err |-> ErrorTryFuncNil]

ReturnedNil == result.kind = "returned" /\ result.err = ErrorTryFuncNil

\* C10 (as claimed): the error-returning Do returns ErrorTryFuncNil if and
\* only if no body was configured, for every body.
C10_NilIffNoBody ==
  (Finished /\ variant = "err") => (ReturnedNil <=> ~BodySet)

\* C10 (amended): the error-returning Do returns ErrorTryFuncNil whenever no
\* body was configured; with a body configured it returns ErrorTryFuncNil
\* only when that value was returned or panicked by the body, or panicked by
\* the handler and recovered.
C10_NilWhenNoBodyElseFromCallables ==
  (Finished /\ variant = "err")
    => /\ ~BodySet => ReturnedNil
       /\ (BodySet /\ ReturnedNil)
            => \/ called.try.val = ErrorTryFuncNil
               \/ /\ HandlerSet
                  /\ called.catch.mode # "ok"
                  /\ called.catch.val = ErrorTryFuncNil
                  /\ CatchCalls(log) = 2

C10_Witness ==
  /\ Finished /\ variant = "err" /\ BodyPanics
  /\ called.try.val = ErrorTryFuncNil
  /\ ReturnedNil

\* the unified error of a finished Do call, read off the body alone
UnifiedOf(f, e) ==
  IF f.out = "return" THEN e = f.val
  ELSE IF IsError(f.val) THEN e = f.val
  ELSE IsError(e) /\ e.text = ExpectedText(f.val)

\* C11 (as claimed): the error-returning Do returns the unified error: nil
\* for a body that succeeds, the body's own error when it returns one, the
\* normalized panic when it panics; the same value the handler got, whatever
\* handler and cleanup are configured.
C11_ReturnsUnifiedError ==
  (Finished /\ variant = "err" /\ BodySet /\ result.kind = "returned")
    => /\ UnifiedOf(called.try, result.err)
       /\ \A i \in CatchAt(log) : log[i].arg = result.err

\* C12: a Do call that found a body and returned to its caller leaves all
\* three slots nil, in the error-returning Do (defer tc.reset()) and in the
\* explicit-Reset Do (tc.Reset() at the end of its deferred function).
C12_SlotsNilAfterReturn ==
  [][(/\ variant \in {"err", "reset"}
      /\ pc # "idle" /\ pc' = "idle"
      /\ result'.kind = "returned")
       => (try' = NilFunc /\ catch' = NilFunc /\ finally' = NilFunc)]_vars

C12_Witness ==
  /\ variant \in {"err", "reset"}
  /\ Finished /\ BodyFails /\ HandlerSet /\ CleanupSet
  /\ result.kind = "returned"
  /\ CatchCalls(log) = 1 /\ FinallyCalls(log) = 1
  /\ try = NilFunc /\ catch = NilFunc /\ finally = NilFunc

\* a handler call, or a cleanup call, of this Do call raised a panic
HandlerPanicked ==
  HandlerSet /\ called.catch.mode # "ok" /\ CatchCalls(log) >= 1
CleanupPanicked ==
  CleanupSet /\ called.finally.mode = "panic" /\ FinallyCalls(log) >= 1

\* the last handler call of this Do call raised a panic
LastHandlerCallPanicked ==
  /\ HandlerSet /\ CatchCalls(log) >= 1
  /\ \/ called.catch.mode = "panicAlways"
     \/ called.catch.mode = "panicFirst" /\ CatchCalls(log) = 1

\* C17 (as claimed): a panic raised inside the handler or inside the cleanup
\* is never intercepted by Do; it reaches the caller of Do, on the
\* returned-error path as on the panic path.
C17_CallablePanicReachesCaller ==
  (Finished /\ (HandlerPanicked \/ CleanupPanicked))
    => /\ result.kind = "panicked"
       /\ result.origin \in {"handler", "cleanup"}

\* C18 (as claimed): in one Do call the body, the handler and the cleanup
\* are each invoked at most once, whatever they do.
C18_EachPhaseAtMostOnce ==
  /\ TryCalls(log) <= 1
  /\ CatchCalls(log) <= 1
  /\ FinallyCalls(log) <= 1

\* C19 (as claimed): if the handler panics during a Do call, the cleanup is
\* not invoked in that call and the panic reaches the caller of Do.
C19_HandlerPanicSkipsCleanup ==
  (Finished /\ HandlerPanicked)
    => /\ FinallyCalls(log) = 0
       /\ result.kind = "panicked"

\* C19 (amended): if the last handler call of a Do call panics (the call on
\* the panic path, or the repeated call after Do recovered a handler panic
\* of the main flow), a panic reaches the caller of Do: the handler's, or
\* the cleanup's when the cleanup then panics too.  The cleanup is not
\* invoked in the explicit-Reset Do, and is invoked exactly once, if
\* configured, in the Do texts that defer it on its own.
C19_LastHandlerPanicEscapes ==
  (Finished /\ LastHandlerCallPanicked)
    => /\ result.kind = "panicked"
       /\ FinallyCalls(log) = IF variant = "reset" \/ ~CleanupSet THEN 0 ELSE 1
       /\ result.origin = IF FinallyCalls(log) = 1 /\ called.finally.mode = "panic"
                            THEN "cleanup" ELSE "handler"

C19_Witness ==
  /\ Finished /\ variant = "err" /\ BodyPanics /\ LastHandlerCallPanicked
  /\ CleanupSet /\ FinallyCalls(log) = 1
  /\ result.kind = "panicked" /\ result.origin = "handler"

\* C20 (as claimed): when a panic raised by the handler or by the cleanup
\* escapes Do, the block is left with all three slots nil.
C20_SlotsNilAfterEscapingPanic ==
  [][(/\ variant \in {"err", "reset"}
      /\ pc # "idle" /\ pc' = "idle"
      /\ result'.kind = "panicked"
      /\ result'.origin \in {"handler", "cleanup"})
       => (try' = NilFunc /\ catch' = NilFunc /\ finally' = NilFunc)]_vars

----------------------------------------------------------------------------
(* Reuse: the same block configured again after Reset, against a block     *)
(* that New() has just made.                                               *)

RECURSIVE RunAll(_, _)
\* the deferred functions of one call, run one after the other
RunAll(ds, st) ==
  IF ds = <<>> THEN st ELSE RunAll(Tail(ds), RunDeferred(Head(ds), st))

\* Do of text v on a block that holds cfg and nothing else, from its first
\* statement to its last
FreshRun(v, cfg) ==
  LET st0 == [try |-> cfg.try, catch |-> cfg.catch, finally |-> cfg.finally,
              err |-> NilErr, panicking |-> NoPanic, log |-> <<>>,
              heap |-> HeapBase]
  IN IF HasGuard(v) /\ cfg.try = NilFunc
       THEN [log |-> <<>>, result |-> GuardResult(v), slots |-> cfg]
       ELSE LET st1 == CallTry(st0)
                st2 == IF /\ st1.panicking.kind = "none"
                          /\ st1.err # NilErr
                          /\ st1.catch # NilFunc
                         THEN CallCatch(st1, st1.err) ELSE st1
                st3 == RunAll(DeferList(v, cfg.finally), st2)
            IN [log |-> st3.log,
                result |-> FinalResult(v, st3.panicking, st3.err),
                slots |-> [try |-> st3.try, catch |-> st3.catch,
                           finally |-> st3.finally]]

\* an error made during the call, without the address it happens to get
Anon(e) ==
  IF e.kind = "error" /\ e.addr > HeapBase THEN [e EXCEPT !.addr = 0] ELSE e

AnonLog(l) ==
  [i \in 1..Len(l) |->
     IF l[i].ev = "catch" THEN [l[i] EXCEPT !.arg = Anon(@)] ELSE l[i]]

AnonResult(r) ==
  IF r.kind = "returned" THEN [r EXCEPT !.err = Anon(@)] ELSE r

\* C13: a block that was reset and configured again enters Do with exactly
\* the newly configured body, handler and cleanup in its slots (a slot the
\* new configuration leaves unset is empty, no earlier callable is left in
\* it), and that Do makes exactly the calls and hands back exactly the
\* result that Do makes on a new block with that configuration.
C13_ReuseAfterResetLikeFresh ==
  /\ (pc = "idle" /\ fresh # Stale)
       => [try |-> try, catch |-> catch, finally |-> finally] = fresh
  /\ (Finished /\ called.fresh # Stale)
       => /\ [try |-> called.try, catch |-> called.catch,
              finally |-> called.finally] = called.fresh
          /\ AnonLog(log) = AnonLog(FreshRun(variant, called.fresh).log)
          /\ AnonResult(result)
               = AnonResult(FreshRun(variant, called.fresh).result)

\* the second Do of a reset block: a failing body, no handler configured
\* this time, a cleanup; only the body and the cleanup ran
C13_Witness ==
  /\ variant = "reset"
  /\ calls = 2
  /\ Finished
  /\ called.fresh # Stale
  /\ BodyFails
  /\ ~HandlerSet
  /\ CleanupSet
  /\ log = <<[ev |-> "try"], [ev |-> "finally"]>>

----------------------------------------------------------------------------
(* Goroutines.  Each goroutine of the concurrency tests runs one script on *)
(* a block of its own, on a block borrowed from a sync.Pool, or on the one *)
(* block all goroutines share.  A step of Do in a goroutine is the step of *)
(* the single-goroutine Do on that goroutine's frame; steps of different   *)
(* goroutines interleave.                                                  *)

NumPairs == 1
NumGoroutines == 2 * NumPairs
Goroutines == 0 .. (NumGoroutines - 1)

\* the block of the single-goroutine client, untouched by the goroutines
single == <<try, catch, finally, pc, defers, err, panicking, log, result,
            called, calls, heap, fresh>>

\* fmt.Errorf("error from goroutine %d", routineID)
GoroutineError(i) ==
  [kind |-> "error", dyn |-> "*errors.errorString", addr |-> HeapBase + 1 + i,
   text |-> <<"e","r","r","o","r"," ","f","r","o","m"," ",
              "g","o","r","o","u","t","i","n","e"," ">> \o Itoa(i)]

\* errors.New("even error")
EvenError(i) ==
  [kind |-> "error", dyn |-> "*errors.errorString", addr |-> HeapBase + 1 + i,
   text |-> <<"e","v","e","n"," ","e","r","r","o","r">>]

\* the body goroutine i configures: an error on even indices only
GoBody(i, script) ==
  [kind |-> "func", out |-> "return", owner |-> i,
   val |-> IF i % 2 = 0
             THEN (IF script = "shared" THEN EvenError(i)
                                        ELSE GoroutineError(i))
             ELSE NilErr]

\* the handler goroutine i configures: it adds one to the error counter
GoHandler(i) ==
  [kind |-> "func", mode |-> "ok", val |-> HandlerPayload, owner |-> i]

\* the cleanup goroutine i configures: it adds one to the completion counter
GoCleanup(i) == [kind |-> "func", mode |-> "ok", owner |-> i]

\* goroutine i before its first statement
GoStart(script, at, b) ==
  [script |-> script, pc |-> at, blk |-> b, err |-> NilErr,
   panicking |-> NoPanic, defers |-> <<>>, log |-> <<>>, result |-> NoResult]

\* the frame of goroutine i's Do: the slots of its block as they are now
GFrame(i) ==
  [try |-> blocks[g[i].blk].try, catch |-> blocks[g[i].blk].catch,
   finally |-> blocks[g[i].blk].finally, err |-> g[i].err,
   panicking |-> g[i].panicking, log |-> g[i].log,
   heap |-> HeapBase + NumGoroutines]

\* the callables a step called: who called, and whose callable it was
Ran(i, st) ==
  {[by |-> i, ev |-> "try", owner |-> blocks[g[i].blk].try.owner] :
     x \in {1 : y \in {1} \cap {TryCalls(st.log) - TryCalls(g[i].log)}}}
  \cup
  {[by |-> i, ev |-> "catch", owner |-> blocks[g[i].blk].catch.owner] :
     x \in {1 : y \in {1} \cap {CatchCalls(st.log) - CatchCalls(g[i].log)}}}
  \cup
  {[by |-> i, ev |-> "finally", owner |-> blocks[g[i].blk].finally.owner] :
     x \in {1 : y \in {1} \cap {FinallyCalls(st.log) - FinallyCalls(g[i].log)}}}

\* the frame written back, with what the called handler and cleanup did to
\* the two counters
GStore(i, st, at, ds, res) ==
  /\ blocks' = [blocks EXCEPT ![g[i].blk] =
                  [try |-> st.try, catch |-> st.catch, finally |-> st.finally]]
  /\ g' = [g EXCEPT ![i] = [script |-> g[i].script, pc |-> at,
                            blk |-> g[i].blk, err |-> st.err,
                            panicking |-> st.panicking, defers |-> ds,
                            log |-> st.log, result |-> res]]
  /\ errorCount' = errorCount + CatchCalls(st.log) - CatchCalls(g[i].log)
  /\ completionCount'
       = completionCount + FinallyCalls(st.log) - FinallyCalls(g[i].log)
  /\ ran' = ran \cup Ran(i, st)

\* the statement after Do in goroutine i's script
AfterDo(i) == IF g[i].script = "pool" THEN "Reset" ELSE "done"

\* mutant: New hands out the block made first, if there is one
GNewSameBlock(i) ==
  /\ g[i].pc = "New"
  /\ blocks' = IF blocks = <<>> THEN <<EmptySlots>> ELSE blocks
  /\ g' = [g EXCEPT ![i].blk = 1, ![i].pc = "Try"]
  /\ UNCHANGED <<variant, single, pool, errorCount, completionCount, ran>>

\* tryCatch := New()
GNew(i) ==
  /\ g[i].pc = "New"
  /\ blocks' = Append(blocks, EmptySlots)
  /\ g' = [g EXCEPT ![i].blk = Len(blocks) + 1, ![i].pc = "Try"]
  /\ UNCHANGED <<variant, single, pool, errorCount, completionCount, ran>>

\* tryCatch := pool.Get().(*TryCatchBlock): a block that was Put, or, when
\* the pool has none to give, a new one
GGet(i) ==
  /\ g[i].pc = "Get"
  /\ \/ \E b \in pool :
          /\ pool' = pool \ {b}
          /\ g' = [g EXCEPT ![i].blk = b, ![i].pc = "Try"]
          /\ UNCHANGED blocks
     \/ /\ blocks' = Append(blocks, EmptySlots)
        /\ g' = [g EXCEPT ![i].blk = Len(blocks) + 1, ![i].pc = "Try"]
        /\ UNCHANGED pool
  /\ UNCHANGED <<variant, single, errorCount, completionCount, ran>>

\* tc.Try(func() error { ... })
GTry(i) ==
  /\ g[i].pc = "Try"
  /\ blocks' = [blocks EXCEPT ![g[i].blk].try = GoBody(i, g[i].script)]
  /\ g' = [g EXCEPT ![i].pc = "Catch"]
  /\ UNCHANGED <<variant, single, pool, errorCount, completionCount, ran>>

\* .Catch(func(err error) { ... })
GCatch(i) ==
  /\ g[i].pc = "Catch"
  /\ blocks' = [blocks EXCEPT ![g[i].blk].catch = GoHandler(i)]
  /\ g' = [g EXCEPT ![i].pc = IF g[i].script = "shared" THEN "Do"
                                                        ELSE "Finally"]
  /\ UNCHANGED <<variant, single, pool, errorCount, completionCount, ran>>

\* mutant: Finally also writes nil to tc.catch
GFinallyClearsCatch(i) ==
  /\ g[i].pc = "Finally"
  /\ blocks' = [blocks EXCEPT ![g[i].blk].finally = GoCleanup(i),
                              ![g[i].blk].catch = NilFunc]
  /\ g' = [g EXCEPT ![i].pc = "Do"]
  /\ UNCHANGED <<variant, single, pool, errorCount, completionCount, ran>>

\* .Finally(func() { ... })
GFinally(i) ==
  /\ g[i].pc = "Finally"
  /\ blocks' = [blocks EXCEPT ![g[i].blk].finally = GoCleanup(i)]
  /\ g' = [g EXCEPT ![i].pc = "Do"]
  /\ UNCHANGED <<variant, single, pool, errorCount, completionCount, ran>>

\* Do, up to the call of the body: the guard and the defer statements
GDoEnter(i) ==
  /\ g[i].pc = "Do"
  /\ LET st == [GFrame(i) EXCEPT !.err = NilErr, !.panicking = NoPanic,
                                 !.log = <<>>]
     IN IF HasGuard(variant) /\ st.try = NilFunc
          THEN GStore(i, st, AfterDo(i), <<>>, GuardResult(variant))
          ELSE GStore(i, st, "body", DeferList(variant, st.finally), NoResult)
  /\ UNCHANGED <<variant, single, pool>>

\* mutant: the handler is called whenever it is set, also for a nil error
GDoBodyNoErrCheck(i) ==
  /\ g[i].pc = "body"
  /\ LET st == CallTry(GFrame(i))
     IN GStore(i, st,
               IF st.panicking.kind = "none" /\ st.catch # NilFunc
                 THEN "catch" ELSE "defer",
               g[i].defers, NoResult)
  /\ UNCHANGED <<variant, single, pool>>

\* err = tc.try()
GDoBody(i) ==
  /\ g[i].pc = "body"
  /\ LET st == CallTry(GFrame(i))
     IN GStore(i, st,
               IF /\ st.panicking.kind = "none"
                  /\ st.err # NilErr
                  /\ st.catch # NilFunc
                 THEN "catch" ELSE "defer",
               g[i].defers, NoResult)
  /\ UNCHANGED <<variant, single, pool>>

\* if err != nil && tc.catch != nil { tc.catch(err) }
GDoCatch(i) ==
  /\ g[i].pc = "catch"
  /\ GStore(i, CallCatch(GFrame(i), g[i].err), "defer", g[i].defers, NoResult)
  /\ UNCHANGED <<variant, single, pool>>

\* the next deferred function
GDoDefer(i) ==
  /\ g[i].pc = "defer"
  /\ g[i].defers # <<>>
  /\ GStore(i, RunDeferred(Head(g[i].defers), GFrame(i)), "defer",
            Tail(g[i].defers), NoResult)
  /\ UNCHANGED <<variant, single, pool>>

\* control leaves Do: it returns, or the panic in flight ends the goroutine
GDoReturn(i) ==
  /\ g[i].pc = "defer"
  /\ g[i].defers = <<>>
  /\ GStore(i, [GFrame(i) EXCEPT !.panicking = NoPanic],
            IF g[i].panicking.kind = "panic" THEN "crashed" ELSE AfterDo(i),
            <<>>, FinalResult(variant, g[i].panicking, g[i].err))
  /\ UNCHANGED <<variant, single, pool>>

\* tryCatch.Reset()
GReset(i) ==
  /\ g[i].pc = "Reset"
  /\ GStore(i, ResetSlots(GFrame(i)), "Put", <<>>, g[i].result)
  /\ UNCHANGED <<variant, single, pool>>

\* pool.Put(tryCatch)
GPut(i) ==
  /\ g[i].pc = "Put"
  /\ pool' = pool \cup {g[i].blk}
  /\ g' = [g EXCEPT ![i].pc = "done"]
  /\ UNCHANGED <<variant, single, blocks, errorCount, completionCount, ran>>

NoCounts ==
  /\ errorCount = 0
  /\ completionCount = 0
  /\ ran = {}

\* goroutines that each make their own block
InitOwn ==
  /\ variant \in Variants
  /\ NewBlock
  /\ blocks = <<>>
  /\ pool = {}
  /\ g = [i \in Goroutines |-> GoStart("own", "New", 0)]
  /\ NoCounts

NextOwn ==
  \E i \in Goroutines :
    \/ GNew(i)
    \/ GTry(i)
    \/ GCatch(i)
    \/ GFinally(i)
    \/ GDoEnter(i)
    \/ GDoBody(i)
    \/ GDoCatch(i)
    \/ GDoDefer(i)
    \/ GDoReturn(i)

SpecOwn == InitOwn /\ [][NextOwn]_vars

\* goroutines that borrow their block from a pool, empty at the start
InitPool ==
  /\ variant = "reset"
  /\ NewBlock
  /\ blocks = <<>>
  /\ pool = {}
  /\ g = [i \in Goroutines |-> GoStart("pool", "Get", 0)]
  /\ NoCounts

NextPool ==
  \E i \in Goroutines :
    \/ GGet(i)
    \/ GTry(i)
    \/ GCatch(i)
    \/ GFinally(i)
    \/ GDoEnter(i)
    \/ GDoBody(i)
    \/ GDoCatch(i)
    \/ GDoDefer(i)
    \/ GDoReturn(i)
    \/ GReset(i)
    \/ GPut(i)

SpecPool == InitPool /\ [][NextPool]_vars

\* goroutines that all use the one block tc
InitShared ==
  /\ variant = "err"
  /\ NewBlock
  /\ blocks = <<EmptySlots>>
  /\ pool = {}
  /\ g = [i \in Goroutines |-> GoStart("shared", "Try", 1)]
  /\ NoCounts

NextShared ==
  \E i \in Goroutines :
    \/ GTry(i)
    \/ GCatch(i)
    \/ GDoEnter(i)
    \/ GDoBody(i)
    \/ GDoCatch(i)
    \/ GDoDefer(i)
    \/ GDoReturn(i)

SpecShared == InitShared /\ [][NextShared]_vars

AllDone == \A i \in Goroutines : g[i].pc = "done"

\* the configuration goroutine i writes in the scripts with a cleanup
GoConfig(i, script) ==
  [try |-> GoBody(i, script), catch |-> GoHandler(i), finally |-> GoCleanup(i)]

OwnCallablesOnly == \A e \in ran : e.owner = e.by

NoneCrashed == \A i \in Goroutines : g[i].pc # "crashed"

\* the calls of goroutine i's Do are those of Do on a new block that holds
\* goroutine i's configuration
LikeAlone(i) == g[i].log = FreshRun(variant, GoConfig(i, g[i].script)).log

\* C15: goroutines that each make their own block with New: under every
\* interleaving each goroutine's Do calls only that goroutine's callables,
\* and exactly the ones it calls when it runs alone; when all are done the
\* handlers have been invoked NumGoroutines/2 times in total (once per even
\* index) and the cleanups NumGoroutines times.
C15_OwnInstancesIndependent ==
  /\ OwnCallablesOnly
  /\ NoneCrashed
  /\ \A i \in Goroutines : g[i].pc = "done" => LikeAlone(i)
  /\ AllDone => /\ errorCount = NumPairs
                /\ completionCount = NumGoroutines

\* all goroutines done, each on a block of its own
C15_Witness ==
  /\ AllDone
  /\ Len(blocks) = NumGoroutines
  /\ \A i, j \in Goroutines : i # j => g[i].blk # g[j].blk
  /\ errorCount = NumPairs
  /\ completionCount = NumGoroutines
  /\ \E e \in ran : e.ev = "catch" /\ e.by = 0

\* a block is with one borrower between Get and Put
Borrowing(i) == g[i].pc \notin {"Get", "done"}

\* C14: borrowers that each do Get, Try/Catch/Finally, Do, Reset, Put on a
\* pool that hands a block to one borrower at a time: under every
\* interleaving no block is with two borrowers, each borrower's Do calls only
\* that borrower's callables, every block held in the pool has its three
\* slots nil, and when all are done the handlers have been invoked
\* NumGoroutines/2 times in total and the cleanups NumGoroutines times.
C14_PoolBorrowersIsolated ==
  /\ \A i, j \in Goroutines :
       (i # j /\ Borrowing(i) /\ Borrowing(j)) => g[i].blk # g[j].blk
  /\ OwnCallablesOnly
  /\ NoneCrashed
  /\ \A b \in pool : blocks[b] = EmptySlots
  /\ \A i \in Goroutines : g[i].pc \in {"Reset", "Put", "done"} => LikeAlone(i)
  /\ AllDone => /\ errorCount = NumPairs
                /\ completionCount = NumGoroutines

\* all borrowers done, and all of them used the same block, one after the
\* other
C14_Witness ==
  /\ AllDone
  /\ Len(blocks) = 1
  /\ pool = {1}
  /\ errorCount = NumPairs
  /\ completionCount = NumGoroutines

\* C16 (as claimed): goroutines that call Try(body).Catch(handler).Do() on
\* one shared block with no synchronization: when all are done the handler
\* has been invoked exactly once for each failing body, NumGoroutines/2 times
\* in total.
C16_SharedHandlerOncePerFailure ==
  AllDone => errorCount = NumPairs

----------------------------------------------------------------------------
(* The setters and Reset.                                                  *)

\* goroutine i takes a step of a setter
SetterStep(i) ==
  /\ g[i].pc \in {"Try", "Catch", "Finally"}
  /\ g'[i].pc # g[i].pc

\* C21: a step of Try, Catch or Finally writes only its own slot of the
\* block it is called on: the two other slots and every other block stay as
\* they are, no stored callable is invoked (no call is logged, neither
\* counter moves), and the call that follows in the chain is made on the
\* same block, the one the setter returned.
C21_SetterWritesOwnSlotOnly ==
  [][\A i \in Goroutines :
       SetterStep(i) =>
         /\ g'[i].blk = g[i].blk
         /\ Len(blocks') = Len(blocks)
         /\ \A b \in 1..Len(blocks) : b # g[i].blk => blocks'[b] = blocks[b]
         /\ g[i].pc # "Try" => blocks'[g[i].blk].try = blocks[g[i].blk].try
         /\ g[i].pc # "Catch"
              => blocks'[g[i].blk].catch = blocks[g[i].blk].catch
         /\ g[i].pc # "Finally"
              => blocks'[g[i].blk].finally = blocks[g[i].blk].finally
         /\ g[i].pc = "Try" => blocks'[g[i].blk].try = GoBody(i, g[i].script)
         /\ g[i].pc = "Catch" => blocks'[g[i].blk].catch = GoHandler(i)
         /\ g[i].pc = "Finally" => blocks'[g[i].blk].finally = GoCleanup(i)
         /\ g'[i].log = g[i].log
         /\ errorCount' = errorCount
         /\ completionCount' = completionCount
         /\ ran' = ran]_vars

\* the same for the single-goroutine client, whose setters take every body,
\* handler and cleanup, nil included: a step between two Do calls makes no
\* call and writes at most one slot, unless it is Reset
SetterFrameSingle ==
  [][(pc = "idle" /\ pc' = "idle" /\ calls' = calls) =>
       /\ log' = log
       /\ result' = result
       /\ \/ Cardinality({s \in {"try", "catch", "finally"} :
                           [try |-> try, catch |-> catch,
                            finally |-> finally][s]
                           # [try |-> try', catch |-> catch',
                              finally |-> finally'][s]}) <= 1
          \/ /\ variant = "reset"
             /\ [try |-> try', catch |-> catch', finally |-> finally']
                  = EmptySlots]_vars

\* a chain Try(..).Catch(..).Finally(..) has run on a block that another
\* borrower used before
C21_Witness ==
  \E i \in Goroutines :
    /\ g[i].pc = "Do"
    /\ blocks[g[i].blk] = GoConfig(i, "pool")
    /\ \E j \in Goroutines : j # i /\ g[j].pc = "done" /\ g[j].blk = g[i].blk
    /\ errorCount + completionCount > 0

\* C22: whatever Try, Catch and Finally calls were made on an empty block
\* before Do, Do finds in each slot the argument of the most recent call for
\* that slot (nil for a slot no call was made for), and calls nothing else:
\* no body call when the most recent Try passed nil, no handler call when
\* the most recent Catch passed nil, no cleanup call when the most recent
\* Finally passed nil; where Do has the nil guard, a most recent Try(nil)
\* makes Do call nothing and hand back what it hands back with no body.
C22_LastAssignmentWins ==
  (Finished /\ called.fresh # Stale)
    => /\ called.try = called.fresh.try
       /\ called.catch = called.fresh.catch
       /\ called.finally = called.fresh.finally
       /\ called.fresh.try = NilFunc => TryCalls(log) = 0
       /\ called.fresh.catch = NilFunc => CatchCalls(log) = 0
       /\ called.fresh.finally = NilFunc => FinallyCalls(log) = 0
       /\ (called.fresh.try = NilFunc /\ HasGuard(variant))
            => /\ log = <<>>
               /\ result = GuardResult(variant)
               /\ result = FreshRun(variant, EmptySlots).result

\* a Do whose most recent Try passed nil while a handler and a cleanup were
\* stored
C22_Witness ==
  /\ variant = "reset"
  /\ Finished
  /\ called.fresh # Stale
  /\ called.fresh.try = NilFunc
  /\ called.fresh.catch \in Handlers
  /\ called.fresh.finally \in Cleanups
  /\ log = <<>>
  /\ result = [kind |-> "returned", err |-> Void]

\* the three slots now, and after the step
Slots == [try |-> try, catch |-> catch, finally |-> finally]
SlotsNext == [try |-> try', catch |-> catch', finally |-> finally']

\* a step between two Do calls after which nothing is configured: every
\* step of Reset is one
EmptiesBlock ==
  /\ pc = "idle"
  /\ pc' = "idle"
  /\ calls' = calls
  /\ fresh' = EmptySlots

\* the step in which a Do that ran a body returns to its caller, in the
\* texts that have a reset
ReturnsAfterBody ==
  /\ pc = "defer"
  /\ pc' = "idle"
  /\ variant \in {"err", "reset"}
  /\ result'.kind = "returned"
  /\ TryCalls(log) >= 1

\* C23: Reset, from whatever the slots hold, leaves all three slots nil,
\* which is the block New() makes; it invokes no callable (no call is
\* logged, the last result stays); on a block that is already empty it
\* changes nothing (so a second Reset changes nothing); and a reset of the
\* block as a Do that ran a body and returned leaves it changes nothing.
C23_ResetEmptiesAndCallsNothing ==
  [][/\ ReturnsAfterBody => ResetSlots(SlotsNext) = SlotsNext
     /\ EmptiesBlock =>
       /\ SlotsNext = EmptySlots
       /\ log' = log
       /\ result' = result
       /\ Slots = EmptySlots => SlotsNext = Slots]_vars

\* Reset has acted after a Do that ran a body and a handler and returned
C23_Witness ==
  /\ variant = "reset"
  /\ Finished
  /\ result.kind = "returned"
  /\ TryCalls(log) = 1
  /\ CatchCalls(log) >= 1
  /\ fresh = EmptySlots
  /\ Slots = EmptySlots

----------------------------------------------------------------------------
(* Nesting: the body of an outer block makes an inner block with New,      *)
(* configures it, runs its Do and then goes on.  One goroutine, two        *)
(* frames of Do; the frames are entries of g, the blocks entries of blocks.*)

Outer == 0
Inner == 1
Frames == {Outer, Inner}

\* errors.New("outer error") / errors.New("inner error")
NestError(i) ==
  [kind |-> "error", dyn |-> "*errors.errorString", addr |-> HeapBase + 1 + i,
   text |-> (IF i = Outer THEN <<"o","u","t","e","r">>
                          ELSE <<"i","n","n","e","r">>)
            \o <<" ","e","r","r","o","r">>]

\* the bodies a frame may be given: one that returns an error, one that
\* returns nil, one that panics
NestBodies(i) ==
  {[kind |-> "func", out |-> "return", val |-> v, owner |-> i] :
     v \in {NestError(i), NilErr}}
  \cup {[kind |-> "func", out |-> "panic", val |-> StringPayload, owner |-> i]}

\* Try(func() error { ... }) of frame i
NTry(i) ==
  /\ g[i].pc = "Try"
  /\ \E f \in NestBodies(i) :
       blocks' = [blocks EXCEPT ![g[i].blk].try = f]
  /\ g' = [g EXCEPT ![i].pc = "Catch"]
  /\ UNCHANGED <<variant, single, pool, errorCount, completionCount, ran>>

\* the outer Do calls tc.try(): the outer body starts, and its first
\* statement is the inner New()
NBodyStart ==
  /\ g[Outer].pc = "body"
  /\ g' = [g EXCEPT ![Outer].log = Append(@, [ev |-> "try"]),
                    ![Outer].pc = "inbody",
                    ![Inner].pc = "New"]
  /\ ran' = ran \cup {[by |-> Outer, ev |-> "try",
                       owner |-> blocks[g[Outer].blk].try.owner]}
  /\ UNCHANGED <<variant, single, blocks, pool, errorCount, completionCount>>

\* innerTryCatch.Do() has returned: the outer body goes on to its end and
\* returns or panics, and the outer Do tests err and tc.catch
NBodyEnd ==
  /\ g[Outer].pc = "inbody"
  /\ g[Inner].pc = "done"
  /\ LET f  == blocks[g[Outer].blk].try
         st == IF f.out = "panic"
                 THEN [GFrame(Outer) EXCEPT !.panicking = Panic("body", f.val)]
                 ELSE [GFrame(Outer) EXCEPT !.err = f.val]
     IN GStore(Outer, st,
               IF /\ st.panicking.kind = "none"
                  /\ st.err # NilErr
                  /\ st.catch # NilFunc
                 THEN "catch" ELSE "defer",
               g[Outer].defers, NoResult)
  /\ UNCHANGED <<variant, single, pool>>

\* the outer frame about to build its block, the inner frame not yet begun
InitNest ==
  /\ variant \in Variants
  /\ NewBlock
  /\ blocks = <<>>
  /\ pool = {}
  /\ g = [i \in Frames |->
            GoStart("nest", IF i = Outer THEN "New" ELSE "wait", 0)]
  /\ NoCounts

NextNest ==
  \/ NBodyStart
  \/ NBodyEnd
  \/ GDoBody(Inner)
  \/ \E i \in Frames :
       \/ GNew(i)
       \/ NTry(i)
       \/ GCatch(i)
       \/ GFinally(i)
       \/ GDoEnter(i)
       \/ GDoCatch(i)
       \/ GDoDefer(i)
       \/ GDoReturn(i)

SpecNest == InitNest /\ [][NextNest]_vars

\* the calls of a finished frame: the body once, the handler once with the
\* frame's error if there is one, the cleanup once, in that order
CallsInOrder(i) ==
  /\ TryCalls(g[i].log) = 1
  /\ CatchCalls(g[i].log) = IF g[i].err # NilErr THEN 1 ELSE 0
  /\ FinallyCalls(g[i].log) = 1
  /\ \A k \in CatchAt(g[i].log) : g[i].log[k].arg = g[i].err
  /\ \A k \in TryAt(g[i].log),
        m \in CatchAt(g[i].log) \cup FinallyAt(g[i].log) : k < m
  /\ \A k \in CatchAt(g[i].log), m \in FinallyAt(g[i].log) : k < m

InnerRunning == g[Inner].pc \notin {"wait", "done"}

OuterBody == blocks[g[Outer].blk].try

\* what holds in every state of a nested run
NestOrder ==
  /\ \A i \in Frames : g[i].pc # "crashed"
  \* while the inner block is built and run, the outer body has been called
  \* and has not gone on; no outer handler or cleanup call has been made
  /\ InnerRunning => /\ g[Outer].pc = "inbody"
                     /\ g[Outer].log = <<[ev |-> "try"]>>
  /\ g[Inner].pc \notin {"wait", "New"} => g[Inner].blk # g[Outer].blk
  \* the outer body goes on only when the inner Do is done, and that Do
  \* has called inner body, inner handler, inner cleanup in that order
  /\ g[Outer].pc \in {"catch", "defer", "done"} => g[Inner].pc = "done"
  /\ g[Inner].pc = "done" => CallsInOrder(Inner)
  \* the outer handler is called with what the outer body returned or
  \* panicked with
  /\ g[Outer].pc = "catch" => /\ OuterBody.out = "return"
                              /\ g[Outer].err = OuterBody.val
  /\ (g[Outer].pc = "defer" /\ g[Outer].panicking.kind = "panic")
       => /\ OuterBody.out = "panic"
          /\ g[Outer].panicking.val = OuterBody.val
  /\ g[Outer].pc = "done"
       => /\ CallsInOrder(Outer)
          /\ g[Outer].err \in {NilErr, NestError(Outer)}
               \/ (IsError(g[Outer].err)
                     /\ g[Outer].err.text = FormatV(StringPayload))

\* a step of the inner frame: its New, its setters, its Do
InnerStep == g'[Inner] # g[Inner] /\ g[Inner].pc # "wait"

\* C24: when the outer body runs a complete Do on an inner block made with
\* New, the inner body, inner handler and inner cleanup are called in that
\* order and the inner Do is done before the outer body goes on; the outer
\* handler and the outer cleanup are called after that, in that order, the
\* handler with the outer body's error; and no step of the inner block (its
\* setters, its Do, its reset) changes a slot of the outer block or the
\* outer frame.
C24_InnerCompletesBeforeOuterContinues ==
  [][/\ NestOrder'
     /\ InnerStep => /\ blocks'[g[Outer].blk] = blocks[g[Outer].blk]
                     /\ g'[Outer] = g[Outer]]_vars

\* the run of the nesting test: both bodies return an error; both frames
\* are done
C24_Witness ==
  /\ variant = "reset"
  /\ g[Outer].pc = "done"
  /\ g[Inner].pc = "done"
  /\ g[Inner].log = <<[ev |-> "try"],
                      [ev |-> "catch", arg |-> NestError(Inner)],
                      [ev |-> "finally"]>>
  /\ g[Outer].log = <<[ev |-> "try"],
                      [ev |-> "catch", arg |-> NestError(Outer)],
                      [ev |-> "finally"]>>
  /\ Len(blocks) = 2

----------------------------------------------------------------------------
(* A client that calls Try only before its first Do.                       *)

\* Try, before the first Do
TryBeforeFirstDo == calls = 0 /\ Try

NextNoSecondTry ==
  \/ TryBeforeFirstDo
  \/ Catch
  \/ Finally
  \/ Reset
  \/ DoEnter
  \/ DoBody
  \/ DoCatch
  \/ DoDefer
  \/ DoReturn

SpecNoSecondTry == Init /\ [][NextNoSecondTry]_vars

\* Do is called again after a Do that ran a body and returned
SecondDoAfterBody ==
  /\ pc = "idle"
  /\ calls' = calls + 1
  /\ calls >= 1
  /\ result.kind = "returned"
  /\ TryCalls(log) >= 1

\* C25 (as claimed): a Do called after a Do that ran a body and returned,
\* with no Try in between, returns on the spot and has called nothing: not
\* the earlier body, not the earlier handler, not the earlier cleanup.  In
\* every text of Do.
C25_SecondDoRunsNothing ==
  [][SecondDoAfterBody => /\ pc' = "idle"
                          /\ log' = <<>>
                          /\ try = NilFunc]_vars

\* the same, for the two texts of Do that reset the block
C25_SecondDoRunsNothingWithReset ==
  [][(SecondDoAfterBody /\ variant \in {"err", "reset"})
       => /\ pc' = "idle"
          /\ log' = <<>>
          /\ try = NilFunc]_vars

\* a step of a Do that found no body: its entry, and whatever follows
\* until control leaves it
StepOfBodilessDo ==
  \/ pc = "idle" /\ calls' = calls + 1 /\ try = NilFunc
  \/ pc # "idle" /\ called.try = NilFunc

\* C26: a Do that finds no body configured writes no slot: the handler and
\* the cleanup stored before the call are stored after it; where Do has
\* the nil guard the call is over at once and no reset has run.
C26_BodilessDoKeepsSlots ==
  [][StepOfBodilessDo
       => /\ SlotsNext = Slots
          /\ HasGuard(variant) => pc' = "idle" /\ defers' = <<>>]_vars

\* a Do that found a handler and a cleanup but no body has returned, and
\* both are still stored
C26_Witness ==
  /\ variant = "err"
  /\ Finished
  /\ fresh = Stale
  /\ called.try = NilFunc
  /\ result = [kind |-> "returned", err |-> ErrorTryFuncNil]
  /\ catch \in Handlers
  /\ finally \in Cleanups
  /\ called.catch = catch
  /\ called.finally = finally

----------------------------------------------------------------------------
(* A body that configures the block it runs in: it calls Catch, Finally    *)
(* or Reset on its own instance and then returns or panics.                *)

\* the handler and the cleanup the body stores
BodyHandler == [kind |-> "func", mode |-> "ok", val |-> HandlerPayload,
                by |-> "body"]
BodyCleanup == [kind |-> "func", mode |-> "ok", by |-> "body"]

\* what the body may call on its own block; Reset is exported by the
\* explicit-Reset text only
Effects(v) ==
  {"none", "Catch", "CatchNil", "Finally", "FinallyNil"}
    \cup (IF v = "reset" THEN {"Reset"} ELSE {})

ReentrantBodies(v) ==
  [kind : {"func"}, out : {"return"}, val : {NilErr, TryError},
   does : Effects(v)]
  \cup [kind : {"func"}, out : {"panic"}, val : {StringPayload},
        does : Effects(v)]

\* the block after the call the body makes on it
ApplyEffect(st, does) ==
  CASE does = "none"       -> st
    [] does = "Catch"      -> [st EXCEPT !.catch = BodyHandler]
    [] does = "CatchNil"   -> [st EXCEPT !.catch = NilFunc]
    [] does = "Finally"    -> [st EXCEPT !.finally = BodyCleanup]
    [] does = "FinallyNil" -> [st EXCEPT !.finally = NilFunc]
    [] does = "Reset"      -> ResetSlots(st)

\* Try(func() error { tc.Catch(..) / tc.Finally(..) / tc.Reset(); ... })
RTry ==
  /\ pc = "idle"
  /\ \E f \in ReentrantBodies(variant) :
       /\ try' = f
       /\ fresh' = IF fresh = Stale THEN Stale ELSE [fresh EXCEPT !.try = f]
  /\ UNCHANGED <<variant, catch, finally, pc, defers, err, panicking, log,
                 result, called, calls, heap, conc>>

\* err = tc.try(), the body writing the slots before it returns or panics
RDoBody ==
  /\ pc = "body"
  /\ LET st == IF try = NilFunc THEN CallTry(Frame)
                                ELSE ApplyEffect(CallTry(Frame), try.does)
     IN /\ Store(st)
        /\ pc' = IF /\ st.panicking.kind = "none"
                    /\ st.err # NilErr
                    /\ st.catch # NilFunc
                   THEN "catch" ELSE "defer"
  /\ UNCHANGED <<variant, defers, result, called, calls, fresh, conc>>

NextReentrant ==
  \/ RTry
  \/ Catch
  \/ Finally
  \/ DoEnter
  \/ RDoBody
  \/ DoCatch
  \/ DoDefer
  \/ DoReturn

SpecReentrant == Init /\ [][NextReentrant]_vars

\* the slots Do found when it was called
AtEntry ==
  [try |-> called.try, catch |-> called.catch, finally |-> called.finally]

\* C27 (as claimed): the calls a Do makes are those it makes with the
\* handler and the cleanup stored when Do was called, whatever the running
\* body writes to the slots; and no nil handler or nil cleanup is called
\* (no nil-call panic leaves Do).
C27_CallsThoseStoredAtEntry ==
  Finished
    => /\ AnonLog(log) = AnonLog(FreshRun(variant, AtEntry).log)
       /\ ~(result.kind = "panicked" /\ result.origin = "runtime")

\* the slots as the body leaves them
AfterBody ==
  IF called.try = NilFunc THEN AtEntry
  ELSE ApplyEffect(AtEntry, called.try.does)

\* what the code does: the handler is the one stored when the body is over
\* (trycatch.go 95, 86; part_000 90, 72), the cleanup the one stored then
\* too, except that the error-returning Do defers the cleanup call only if
\* a cleanup was stored at entry (trycatch.go 72-74) and then calls
\* whatever is stored, nil included
ReentrantRun ==
  FreshRun(variant,
           [try |-> called.try, catch |-> AfterBody.catch,
            finally |-> IF variant = "err" /\ called.finally = NilFunc
                          THEN NilFunc ELSE AfterBody.finally])

CallsThoseStoredAfterBody ==
  (Finished /\ ~(variant = "err" /\ called.finally # NilFunc
                   /\ AfterBody.finally = NilFunc))
    => /\ AnonLog(log) = AnonLog(ReentrantRun.log)
       /\ AnonResult(result) = AnonResult(ReentrantRun.result)

NilCleanupCalled ==
  /\ Finished
  /\ variant = "err"
  /\ called.finally # NilFunc
  /\ AfterBody.finally = NilFunc
  /\ called.try # NilFunc

----------------------------------------------------------------------------
(* The error-returning Do against the explicit-Reset Do.                   *)

\* neither the handler nor the cleanup found at entry panics
QuietCallables ==
  /\ called.catch # NilFunc => called.catch.mode = "ok"
  /\ called.finally # NilFunc => called.finally.mode = "ok"

\* C28: for every configuration with a body, whatever the body does, and
\* with a handler and a cleanup that do not panic, the Do of trycatch.go
\* 59-100 and the Do of unnamed/part_000 make the same calls of body,
\* handler and cleanup in the same order, the handler with the same
\* argument, and leave the same slots; the calls of the Do that ran are
\* those calls.
C28_BothTextsSameCalls ==
  (Finished /\ variant \in {"err", "reset"} /\ BodySet /\ QuietCallables)
    => /\ AnonLog(FreshRun("err", AtEntry).log)
            = AnonLog(FreshRun("reset", AtEntry).log)
       /\ FreshRun("err", AtEntry).slots = FreshRun("reset", AtEntry).slots
       /\ AnonLog(log) = AnonLog(FreshRun("err", AtEntry).log)
       /\ AnonLog(log) = AnonLog(FreshRun("reset", AtEntry).log)
       /\ FreshRun(variant, AtEntry).slots = EmptySlots

\* the explicit-Reset Do has run a panicking body, the handler and the
\* cleanup
C28_Witness ==
  /\ variant = "reset"
  /\ Finished
  /\ QuietCallables
  /\ called.try \in Bodies
  /\ called.try.out = "panic"
  /\ called.try.val = IntPayload
  /\ called.catch \in Handlers
  /\ called.finally \in Cleanups
  /\ Len(log) = 3
  /\ log[2].ev = "catch"
  /\ log[2].arg.text = Itoa(IntPayload.n)
  /\ log[3].ev = "finally"

----------------------------------------------------------------------------
(* Termination.  The goroutine that called Do goes on running it: a step   *)
(* of Do that can be taken is taken.  The bodies, handlers and cleanups of *)
(* the model all return or panic.                                          *)

DoStep == DoBody \/ DoCatch \/ DoDefer \/ DoReturn

SpecFair == Init /\ [][NextNoSecondTry]_vars /\ WF_vars(DoStep)

Executing == pc # "idle"

\* C29: a Do call that has started leaves Do: it returns to its caller or
\* passes a panic on.
C29_DoLeavesExecuting == Executing ~> ~Executing

\* a Do has been left by a panic, another by a return
C29_Witness ==
  /\ Finished
  /\ calls = MaxCalls
  /\ result.kind = "panicked"
  /\ Len(log) >= 2

====
